---- MODULE Spec2Model ----
(***************************************************************************)
(* Model of the probability engine of goptavares/aDDM:                     *)
(*   - the sequential Bayesian grid search of addm_test_individual.py,     *)
(*     individual_posteriors.py and ddm_test.py (SpecPosterior);           *)
(*   - ddm.get_trial_likelihood (SpecLikelihood);                          *)
(*   - ddm.run_simulations (SpecSimul);                                    *)
(*   - optimize.get_model_nll (SpecOptimize).                              *)
(* Real numbers are exact rationals <<numerator, denominator>>.            *)
(***************************************************************************)
EXTENDS Integers, Sequences, FiniteSets, TLC

VARIABLES
    \* ---- grid search (addm_test_individual.py / individual_posteriors.py)
    script,          \* which main() is running
    rangeD,          \* args.range_d / rangeD
    rangeSigma,      \* args.range_sigma / rangeStd
    trials,          \* the data set: per trial, the likelihood of each model
    models,          \* list of candidate models, in nested-loop order
    posteriors,      \* dict: model -> probability
    trial,           \* position of the `for trial in trials` loop (1-based)
    workers,         \* per work item of pool.map: "idle", "pending", "done", "raised"
    results,         \* per work item of pool.map: value returned by the worker
    likelihoods,     \* list returned by pool.map
    denominator,
    i,               \* index of the update loop (0-based, as in the source)
    pc,              \* position of main()
    \* ---- ddm.get_trial_likelihood
    RT,              \* reaction time in milliseconds
    choice,          \* -1 (left item) or +1 (right item)
    valueLeft,
    valueRight,
    barrier,
    maxTime,
    time,            \* index of the loop over the time of the trial
    prStates,        \* probability of every state, indexed from 0
    probUpCrossing,  \* per time step, indexed from 0
    probDownCrossing,
    likelihood,
    lpc,             \* position of get_trial_likelihood
    \* ---- ddm.run_simulations
    numTrials,       \* number of simulations to generate
    simBarrier,      \* the argument barrier
    trialCount,
    RDV,
    simTime,         \* the local variable time
    increments,      \* the increments sampled so far in the current trial
    simRT,           \* the dict RT
    simChoice,       \* the dict choice
    spc,             \* position of run_simulations
    \* ---- optimize.get_model_nll
    trialsPerSubject,  \* the global set from --trials-per-subject
    subjectTrials,     \* per subject, the number of trials of choice[subject]
    subject,           \* position of the `for subject in subjects` loop (1-based)
    trialSet,          \* the trials np.random.choice returned for the subject
    scored,            \* per subject, the trials given to get_trial_likelihood
    logLikelihood,     \* the likelihoods whose logarithms were added so far
    opc                \* position of get_model_nll

postVars == <<script, rangeD, rangeSigma, trials, models, posteriors, trial,
              workers, results, likelihoods, denominator, i, pc>>

likVars == <<RT, choice, valueLeft, valueRight, barrier, maxTime, time,
             prStates, probUpCrossing, probDownCrossing, likelihood, lpc>>

simVars == <<numTrials, simBarrier, trialCount, RDV, simTime, increments,
             simRT, simChoice, spc>>

optVars == <<trialsPerSubject, subjectTrials, subject, trialSet, scored,
             logLikelihood, opc>>

vars == <<postVars, likVars, simVars, optVars>>

(***************************************************************************)
(* Bounds of the model.                                                    *)
(***************************************************************************)
MaxModels == 2       \* largest number of entries of the list of models
MaxTrials == 2       \* largest number of trials in the data set
MaxTime == 3         \* longest trial given to get_trial_likelihood, in time steps
MaxNumTrials == 2    \* largest numTrials given to run_simulations
MaxSimSteps == 4     \* largest number of increments followed in one simulated trial
MaxSubjects == 2     \* largest number of subjects in the data of optimize.py
MaxSubjectTrials == 2  \* largest number of trials of one subject

(***************************************************************************)
(* Exact rational arithmetic.                                              *)
(***************************************************************************)
Abs(x) == IF x < 0 THEN -x ELSE x

GCDOf[pair \in Nat \X Nat] ==
    IF pair[2] = 0 THEN pair[1] ELSE GCDOf[<<pair[2], pair[1] % pair[2]>>]

GCD(g1, g2) == GCDOf[<<g1, g2>>]

\* the fraction num / den in lowest terms, with a positive denominator
RatOf[pair \in Int \X Int] ==
    LET g == GCD(Abs(pair[1]), Abs(pair[2]))
        s == IF pair[2] < 0 THEN -1 ELSE 1
    IN  <<(s * pair[1]) \div g, (s * pair[2]) \div g>>

Rat(num, den) == RatOf[<<num, den>>]

Rationals == Int \X Int

Zero == <<0, 1>>
One == <<1, 1>>

RAddOf[pair \in Rationals \X Rationals] ==
    LET ra == pair[1]
        rb == pair[2]
        g == GCD(ra[2], rb[2])
    IN  Rat(ra[1] * (rb[2] \div g) + rb[1] * (ra[2] \div g),
            (ra[2] \div g) * rb[2])

RMulOf[pair \in Rationals \X Rationals] ==
    LET ra == pair[1]
        rb == pair[2]
        h1 == GCD(Abs(ra[1]), rb[2])
        h2 == GCD(Abs(rb[1]), ra[2])
    IN  Rat((ra[1] \div h1) * (rb[1] \div h2), (ra[2] \div h2) * (rb[2] \div h1))

RInvOf[ra \in Rationals] ==
    IF ra[1] < 0 THEN <<-ra[2], -ra[1]>> ELSE <<ra[2], ra[1]>>

RAdd(ra, rb) == RAddOf[<<ra, rb>>]
RNeg(ra) == <<-ra[1], ra[2]>>
RSub(ra, rb) == RAddOf[<<ra, RNeg(rb)>>]
RMul(ra, rb) == RMulOf[<<ra, rb>>]
RDiv(ra, rb) == RMulOf[<<ra, RInvOf[rb]>>]
RLeq(ra, rb) == RSub(ra, rb)[1] <= 0
RLess(ra, rb) == RSub(ra, rb)[1] < 0

\* sum(d.values()) of a dict d
RECURSIVE SumValuesOver(_, _)
SumValuesOver(d, keys) ==
    IF keys = {} THEN Zero
    ELSE LET k == CHOOSE x \in keys : TRUE
         IN  RAdd(d[k], SumValuesOver(d, keys \ {k}))

SumValues(d) == SumValuesOver(d, DOMAIN d)

SeqToSet(s) == {s[k] : k \in 1..Len(s)}

(***************************************************************************)
(* Inputs of the grid search.                                              *)
(***************************************************************************)
Scripts == {"addm_test_individual", "individual_posteriors"}

DValues == {1, 2}          \* the values a range may contain
SigmaValues == {1}

Ranges(V) == UNION {[1..n -> V] : n \in 1..MaxModels}

\* the likelihoods a worker can return for a (trial, model) pair
LikValues == {Zero, <<1, 2>>, One}

\* a trial is represented by the likelihood every model assigns to it:
\* get_trial_likelihood is a pure function of the trial and the model
Trials(M) == [M -> LikValues]

DataSets(M) == UNION {[1..n -> Trials(M)] : n \in 0..MaxTrials}

(***************************************************************************)
(* Building the grid: the nested loops over the ranges.                    *)
(***************************************************************************)
\* the list `models` in the order of the nested for loops
GridModels(rd, rs) ==
    [k \in 1..(Len(rd) * Len(rs)) |->
        <<rd[((k - 1) \div Len(rs)) + 1], rs[((k - 1) % Len(rs)) + 1]>>]

NumModels(rd, rs) == Len(rd) * Len(rs)

\* the dict `posteriors` after the nested loops: one key per distinct model
InitialPosteriors(rd, rs) ==
    [m \in SeqToSet(GridModels(rd, rs)) |-> Rat(1, NumModels(rd, rs))]

(***************************************************************************)
(* One trial of the update loop.                                           *)
(***************************************************************************)
\* denominator += posteriors[model] * likelihoods[i], over the list models
RECURSIVE Denominator(_, _, _)
Denominator(ms, post, liks) ==
    IF ms = <<>> THEN Zero
    ELSE RAdd(RMul(post[Head(ms)], Head(liks)),
              Denominator(Tail(ms), post, Tail(liks)))

\* a faulty update that forgets the prior
UpdateOneNoPrior(post, model, lik, den) ==
    [post EXCEPT ![model] = RDiv(lik, den)]

\* prior = posteriors[model]; posteriors[model] = likelihoods[i] * prior / denominator
UpdateOne(post, model, lik, den) ==
    [post EXCEPT ![model] = RDiv(RMul(lik, post[model]), den)]

\* the whole `for model in models` update loop
RECURSIVE UpdateAll(_, _, _, _)
UpdateAll(ms, post, liks, den) ==
    IF ms = <<>> THEN post
    ELSE UpdateAll(Tail(ms), UpdateOne(post, Head(ms), Head(liks), den),
                   Tail(liks), den)

\* the list pool.map returns for a trial: the i-th result belongs to the i-th model
MapLikelihoods(ms, tr) == [k \in 1..Len(ms) |-> tr[ms[k]]]

\* one iteration of `for trial in trials`, without worker failures
ObserveTrial(ms, post, tr) ==
    LET liks == MapLikelihoods(ms, tr)
        den == Denominator(ms, post, liks)
    IN  IF den = Zero THEN post ELSE UpdateAll(ms, post, liks, den)

\* the whole `for trial in trials` loop, without worker failures
RECURSIVE ObserveAll(_, _, _)
ObserveAll(ms, post, trs) ==
    IF trs = <<>> THEN post
    ELSE ObserveAll(ms, ObserveTrial(ms, post, Head(trs)), Tail(trs))

(***************************************************************************)
(* The grid search as a state machine.                                     *)
(***************************************************************************)
\* run_simulations is not running
SimulIdle ==
    /\ numTrials = 0
    /\ simBarrier = 0
    /\ trialCount = 0
    /\ RDV = 0
    /\ simTime = 0
    /\ increments = <<>>
    /\ simRT = <<>>
    /\ simChoice = <<>>
    /\ spc = "idle"

\* get_model_nll is not running
OptimizeIdle ==
    /\ trialsPerSubject = 0
    /\ subjectTrials = <<>>
    /\ subject = 0
    /\ trialSet = {}
    /\ scored = <<>>
    /\ logLikelihood = <<>>
    /\ opc = "idle"

\* the grid search is not running
PosteriorIdle ==
    /\ script = "none"
    /\ rangeD = <<>>
    /\ rangeSigma = <<>>
    /\ trials = <<>>
    /\ models = <<>>
    /\ posteriors = <<>>
    /\ trial = 0
    /\ workers = <<>>
    /\ results = <<>>
    /\ likelihoods = <<>>
    /\ denominator = Zero
    /\ i = 0
    /\ pc = "idle"

\* get_trial_likelihood is not running
LikelihoodIdle ==
    /\ RT = 0
    /\ choice = 0
    /\ valueLeft = 0
    /\ valueRight = 0
    /\ barrier = Zero
    /\ maxTime = 0
    /\ time = 0
    /\ prStates = <<>>
    /\ probUpCrossing = <<>>
    /\ probDownCrossing = <<>>
    /\ likelihood = Zero
    /\ lpc = "idle"

InitPosterior ==
    /\ script \in Scripts
    /\ rangeD \in Ranges(DValues)
    /\ rangeSigma \in Ranges(SigmaValues)
    /\ NumModels(rangeD, rangeSigma) <= MaxModels
    /\ trials \in DataSets(SeqToSet(GridModels(rangeD, rangeSigma)))
    /\ models = <<>>
    /\ posteriors = <<>>
    /\ trial = 0
    /\ workers = <<>>
    /\ results = <<>>
    /\ likelihoods = <<>>
    /\ denominator = Zero
    /\ i = 0
    /\ pc = "grid"
    /\ LikelihoodIdle
    /\ SimulIdle
    /\ OptimizeIdle

\* models = list(); posteriors = dict(); for d ...: for sigma ...: ...
BuildGrid ==
    /\ pc = "grid"
    /\ models' = GridModels(rangeD, rangeSigma)
    /\ posteriors' = InitialPosteriors(rangeD, rangeSigma)
    /\ trial' = 1
    /\ pc' = "trial"
    /\ UNCHANGED <<script, rangeD, rangeSigma, trials, workers, results,
                   likelihoods, denominator, i>>
    /\ UNCHANGED <<likVars, simVars, optVars>>

\* for trial in trials: build listParams and hand it to pool.map
DispatchTrial ==
    /\ pc = "trial"
    /\ trial <= Len(trials)
    /\ workers' = [k \in 1..Len(models) |-> "pending"]
    /\ results' = [k \in 1..Len(models) |-> Zero]
    /\ pc' = "map"
    /\ UNCHANGED <<script, rangeD, rangeSigma, trials, models, posteriors,
                   trial, likelihoods, denominator, i>>
    /\ UNCHANGED <<likVars, simVars, optVars>>

\* a worker finishes get_trial_likelihood_wrapper(listParams[k])
WorkerReturns(k) ==
    /\ pc = "map"
    /\ workers[k] = "pending"
    /\ workers' = [workers EXCEPT ![k] = "done"]
    /\ results' = [results EXCEPT ![k] = trials[trial][models[k]]]
    /\ UNCHANGED <<script, rangeD, rangeSigma, trials, models, posteriors,
                   trial, likelihoods, denominator, i, pc>>
    /\ UNCHANGED <<likVars, simVars, optVars>>

\* a worker raises inside get_trial_likelihood_wrapper(listParams[k])
WorkerRaises(k) ==
    /\ pc = "map"
    /\ workers[k] = "pending"
    /\ workers' = [workers EXCEPT ![k] = "raised"]
    /\ UNCHANGED <<script, rangeD, rangeSigma, trials, models, posteriors,
                   trial, results, likelihoods, denominator, i, pc>>
    /\ UNCHANGED <<likVars, simVars, optVars>>

AllGathered == \A k \in 1..Len(workers) : workers[k] # "pending"

\* a faulty pool.map that returns as soon as one worker has finished
PoolMapReturnsEarly ==
    /\ pc = "map"
    /\ \E k \in 1..Len(workers) : workers[k] = "done"
    /\ \A k \in 1..Len(workers) : workers[k] # "raised"
    /\ likelihoods' = results
    /\ pc' = "denominator"
    /\ UNCHANGED <<script, rangeD, rangeSigma, trials, models, posteriors,
                   trial, workers, results, denominator, i>>
    /\ UNCHANGED <<likVars, simVars, optVars>>

\* pool.map returns the list of results, in the order of listParams
PoolMapReturns ==
    /\ pc = "map"
    /\ AllGathered
    /\ \A k \in 1..Len(workers) : workers[k] = "done"
    /\ likelihoods' = results
    /\ pc' = "denominator"
    /\ UNCHANGED <<script, rangeD, rangeSigma, trials, models, posteriors,
                   trial, workers, results, denominator, i>>
    /\ UNCHANGED <<likVars, simVars, optVars>>

\* pool.map re-raises the exception of a worker
PoolMapRaises ==
    /\ pc = "map"
    /\ AllGathered
    /\ \E k \in 1..Len(workers) : workers[k] = "raised"
    /\ pc' = IF script = "addm_test_individual" THEN "returned" ELSE "raised"
    /\ UNCHANGED <<script, rangeD, rangeSigma, trials, models, posteriors,
                   trial, workers, results, likelihoods, denominator, i>>
    /\ UNCHANGED <<likVars, simVars, optVars>>

\* a faulty skip that wipes the posterior when the denominator is 0
ComputeDenominatorWipes ==
    /\ pc = "denominator"
    /\ LET den == Denominator(models, posteriors, likelihoods)
       IN  /\ denominator' = den
           /\ IF den = Zero
              THEN /\ trial' = trial + 1
                   /\ pc' = "trial"
                   /\ posteriors' = [m \in DOMAIN posteriors |-> Zero]
              ELSE /\ trial' = trial
                   /\ pc' = "update"
                   /\ posteriors' = posteriors
    /\ i' = 0
    /\ UNCHANGED <<script, rangeD, rangeSigma, trials, models,
                   workers, results, likelihoods>>
    /\ UNCHANGED <<likVars, simVars, optVars>>

\* the denominator loop and `if denominator == 0: continue`
ComputeDenominator ==
    /\ pc = "denominator"
    /\ LET den == Denominator(models, posteriors, likelihoods)
       IN  /\ denominator' = den
           /\ IF den = Zero
              THEN /\ trial' = trial + 1
                   /\ pc' = "trial"
              ELSE /\ trial' = trial
                   /\ pc' = "update"
    /\ i' = 0
    /\ UNCHANGED <<script, rangeD, rangeSigma, trials, models, posteriors,
                   workers, results, likelihoods>>
    /\ UNCHANGED <<likVars, simVars, optVars>>

\* one iteration of the loop that calculates the posteriors after this trial
UpdateModel ==
    /\ pc = "update"
    /\ i < Len(models)
    /\ posteriors' = UpdateOne(posteriors, models[i + 1], likelihoods[i + 1],
                               denominator)
    /\ i' = i + 1
    /\ UNCHANGED <<script, rangeD, rangeSigma, trials, models, trial, workers,
                   results, likelihoods, denominator, pc>>
    /\ UNCHANGED <<likVars, simVars, optVars>>

\* the update loop is over: on to the next trial
NextTrial ==
    /\ pc = "update"
    /\ i = Len(models)
    /\ trial' = trial + 1
    /\ pc' = "trial"
    /\ UNCHANGED <<script, rangeD, rangeSigma, trials, models, posteriors,
                   workers, results, likelihoods, denominator, i>>
    /\ UNCHANGED <<likVars, simVars, optVars>>

\* `for trial in trials` is exhausted: main() prints the posteriors and returns
Finish ==
    /\ pc = "trial"
    /\ trial > Len(trials)
    /\ pc' = "returned"
    /\ UNCHANGED <<script, rangeD, rangeSigma, trials, models, posteriors,
                   trial, workers, results, likelihoods, denominator, i>>
    /\ UNCHANGED <<likVars, simVars, optVars>>

NextPosterior ==
    \/ BuildGrid
    \/ DispatchTrial
    \/ \E k \in 1..Len(models) : WorkerReturns(k)
    \/ \E k \in 1..Len(models) : WorkerRaises(k)
    \/ PoolMapReturns
    \/ PoolMapRaises
    \/ ComputeDenominator
    \/ UpdateModel
    \/ NextTrial
    \/ Finish

SpecPosterior == InitPosterior /\ [][NextPosterior]_vars

(***************************************************************************)
(* Properties of the grid search.                                          *)
(***************************************************************************)
\* the trial before the current position of the loop has been processed
AfterTrial == pc = "trial" /\ trial >= 2

NoRepeats(s) == \A k1, k2 \in 1..Len(s) : s[k1] = s[k2] => k1 = k2

TrialOrders(n) == {f \in [1..n -> 1..n] : \A k1, k2 \in 1..n : f[k1] = f[k2] => k1 = k2}

Permuted(s, f) == [k \in 1..Len(s) |-> s[f[k]]]

\* some trial of the sequence is skipped when the trials are processed in this order
RECURSIVE SomeSkipped(_, _, _)
SomeSkipped(ms, post, trs) ==
    IF trs = <<>> THEN FALSE
    ELSE \/ Denominator(ms, post, MapLikelihoods(ms, Head(trs))) = Zero
         \/ SomeSkipped(ms, ObserveTrial(ms, post, Head(trs)), Tail(trs))

\* main() has processed every trial of the data set
AllTrialsDone == pc = "returned" /\ trial > Len(trials)

\* C1: after every trial whose denominator is non-zero, the values of the
\* posterior sum to exactly 1.
PosteriorSumsToOne ==
    (AfterTrial /\ denominator # Zero) => SumValues(posteriors) = One

\* C2: when the denominator of a trial is exactly 0 the update is skipped: the
\* posterior of every model is left as it was, no error is raised and the loop
\* goes on to the next trial.
ZeroDenominatorSkips ==
    [][(pc = "denominator" /\ Denominator(models, posteriors, likelihoods) = Zero)
        => (posteriors' = posteriors /\ pc' = "trial" /\ trial' = trial + 1)]_vars

\* a trial has just been skipped and the loop is about to take the next one
SkippedTrialWitness ==
    /\ AfterTrial
    /\ trial <= Len(trials)
    /\ Len(likelihoods) > 0
    /\ denominator = Zero
    /\ \E m \in DOMAIN posteriors : posteriors[m] # Zero

\* C3: for every parameter grid, repeated values included, the posterior built
\* before the first trial is uniform over the candidate models and sums to 1.
InitialPosteriorUniform ==
    (pc = "trial" /\ trial = 1) =>
        /\ \A m, n \in DOMAIN posteriors : posteriors[m] = posteriors[n]
        /\ SumValues(posteriors) = One

OneTrialAtATime ==
    /\ [](pc \in {"denominator", "update"} =>
            /\ \A k \in 1..Len(models) : workers[k] = "done"
            /\ likelihoods = MapLikelihoods(models, trials[trial]))
    /\ [][trial' # trial =>
            /\ trial' = trial + 1
            /\ \/ pc = "grid"
               \/ pc = "denominator" /\ denominator' = Zero
               \/ pc = "update" /\ i = Len(models)]_vars
    /\ [][(pc = "update" /\ pc' = "update") =>
            (i' = i + 1 /\ likelihoods' = likelihoods /\ trial' = trial)]_vars

\* the update of the second trial has overwritten the posterior of every model
SecondUpdateComplete ==
    pc = "update" /\ trial = 2 /\ i = Len(models) /\ Len(models) = 2

\* a worker has raised during the pool.map of the current trial
SomeWorkerRaised == \E k \in 1..Len(workers) : workers[k] = "raised"

\* C11: when a worker raises during the likelihood evaluation of a trial, the
\* failure reaches the caller of main(), and the update of that trial is
\* aborted as a whole: no posterior is overwritten and the results of the
\* workers that succeeded are never handed to the update.
WorkerFailureReachesCaller ==
    /\ []((SomeWorkerRaised /\ pc # "map") => pc = "raised")
    /\ [][SomeWorkerRaised =>
            (posteriors' = posteriors /\ likelihoods' = likelihoods)]_vars

\* C15: at the end of the update of a non-skipped trial, the posterior of
\* every candidate model has been overwritten exactly once, and it is the
\* pre-trial prior of the model times the likelihood of that model for that
\* trial over the denominator, itself computed from the pre-trial prior; this
\* for every grid, grids with repeated values included.
UpdateFromPreTrialPrior ==
    (pc = "update" /\ i = Len(models)) =>
        LET prior == ObserveAll(models, InitialPosteriors(rangeD, rangeSigma),
                                SubSeq(trials, 1, trial - 1))
        IN  /\ denominator = Denominator(models, prior, likelihoods)
            /\ \A m \in DOMAIN posteriors :
                  /\ Cardinality({k \in 1..i : models[k] = m}) = 1
                  /\ posteriors[m] =
                        RDiv(RMul(trials[trial][m], prior[m]), denominator)

(***************************************************************************)
(* ddm.get_trial_likelihood.                                               *)
(***************************************************************************)
timeStep == 10           \* default of the argument timeStep
stateStep == <<1, 2>>     \* the argument stateStep of the modelled calls
d == <<1, 2>>             \* the argument d of the modelled calls

RTValues == {5 * k : k \in (-2)..(2 * MaxTime)}
ChoiceValues == {-1, 1}
ItemValues == {0, 1}
BarrierValues == {<<1, 2>>, One, <<3, 2>>}

Whole(n) == <<n, 1>>

\* number of stateSteps in x, for x a multiple of stateStep
Steps(x) == RDiv(x, stateStep)[1]

\* scipy.stats.norm.pdf(x, mean, sigma) for sigma = 1 and x - mean a multiple
\* of 1/2, rounded to eighths
NormPdf(x, mu) ==
    LET k == Abs(Steps(RSub(x, mu)))
    IN  CASE k = 0 -> <<3, 8>>
          [] k = 1 -> <<3, 8>>
          [] k = 2 -> <<2, 8>>
          [] k = 3 -> <<1, 8>>
          [] OTHER -> Zero

\* 1 - scipy.stats.norm.cdf(x, mean, sigma) for x >= mean, rounded to sixteenths
UpperTail(k) ==
    CASE k = 0 -> <<8, 16>>
      [] k = 1 -> <<5, 16>>
      [] k = 2 -> <<3, 16>>
      [] k = 3 -> <<1, 16>>
      [] OTHER -> Zero

\* scipy.stats.norm.cdf(x, mean, sigma) for sigma = 1 and x - mean a multiple of 1/2
NormCdf(x, mu) ==
    LET k == Steps(RSub(x, mu))
    IN  IF k >= 0 THEN RSub(One, Rat(UpperTail(k)[1], UpperTail(k)[2]))
        ELSE Rat(UpperTail(-k)[1], UpperTail(-k)[2])

\* np.arange(-barrier, barrier + stateStep, stateStep), indexed from 0, with
\* the state next to zero snapped to 0
NumStates(b) == Steps(RAdd(b, b)) + 1

States(b) == [j \in 0..(NumStates(b) - 1) |-> RAdd(RNeg(b), RMul(Whole(j), stateStep))]

\* decay = 0: the barriers are constant over time
BarrierUp(b, t) == RDiv(b, Whole(1 + 0 * t))
BarrierDown(b, t) == RDiv(RNeg(b), Whole(1 + 0 * t))

\* mean = d * (valueLeft - valueRight)
Mean(vl, vr) == RMul(d, Whole(vl - vr))

\* np.sum / np.dot over arrays indexed from 0
RECURSIVE SumTo(_, _)
SumTo(f, n) == IF n < 0 THEN Zero ELSE RAdd(f[n], SumTo(f, n - 1))

Sum(f) == SumTo(f, Cardinality(DOMAIN f) - 1)

RECURSIVE DotTo(_, _, _)
DotTo(f, g, n) ==
    IF n < 0 THEN Zero ELSE RAdd(RMul(f[n], g[n]), DotTo(f, g, n - 1))

Dot(f, g) == DotTo(f, g, Cardinality(DOMAIN f) - 1)

\* prStates before the loop: everything in the zero state
InitialPrStates(b) ==
    LET states == States(b)
    IN  [j \in DOMAIN states |->
            IF states[j] = Zero /\ ~RLess(BarrierUp(b, 0), states[j])
                                /\ ~RLess(states[j], BarrierDown(b, 0))
            THEN One ELSE Zero]

\* a faulty absorption that keeps the mass of a state sitting exactly on a barrier
PrStatesNewStrict(b, mu, pr, t) ==
    LET states == States(b)
    IN  [j \in DOMAIN states |->
            IF \/ RLess(BarrierUp(b, t), states[j])
               \/ RLess(states[j], BarrierDown(b, t))
            THEN Zero
            ELSE RMul(stateStep,
                      Dot([src \in DOMAIN states |->
                              NormPdf(RSub(states[j], states[src]), mu)], pr))]

\* prStatesNew before the renormalization: the states inside the barriers
PrStatesNew(b, mu, pr, t) ==
    LET states == States(b)
    IN  [j \in DOMAIN states |->
            IF \/ RLeq(BarrierUp(b, t), states[j])
               \/ RLeq(states[j], BarrierDown(b, t))
            THEN Zero
            ELSE RMul(stateStep,
                      Dot([src \in DOMAIN states |->
                              NormPdf(RSub(states[j], states[src]), mu)], pr))]

\* tempUpCross and tempDownCross before the renormalization
TempUpCross(b, mu, pr, t) ==
    LET states == States(b)
    IN  Dot(pr, [src \in DOMAIN states |->
                    RSub(One, NormCdf(RSub(BarrierUp(b, t), states[src]), mu))])

TempDownCross(b, mu, pr, t) ==
    LET states == States(b)
    IN  Dot(pr, [src \in DOMAIN states |->
                    NormCdf(RSub(BarrierDown(b, t), states[src]), mu)])

\* a faulty renormalization that corrects by adding the missing mass
RenormalizeAdditive(x, sIn, sCurrent) == RAdd(x, RSub(sIn, sCurrent))

\* x = (x * float(sumIn)) / float(sumCurrent)
Renormalize(x, sIn, sCurrent) == RDiv(RMul(x, sIn), sCurrent)

SumCurrent(b, mu, pr, t) ==
    RAdd(RAdd(Sum(PrStatesNew(b, mu, pr, t)), TempUpCross(b, mu, pr, t)),
         TempDownCross(b, mu, pr, t))

\* the label run_simulations gives a trial that ends with the evidence at rdv
BarrierChoice(rdv, b) ==
    IF rdv >= b THEN -1 ELSE IF rdv <= -b THEN 1 ELSE 0

\* a faulty final choice test that reads the other series
LikelihoodOfSwapped(c, up, down, last) ==
    IF c = -1 THEN (IF RLess(Zero, down[last]) THEN down[last] ELSE Zero)
    ELSE IF c = 1 THEN (IF RLess(Zero, up[last]) THEN up[last] ELSE Zero)
    ELSE Zero

\* the likelihood contribution of the trial based on the final choice;
\* last is the index that [-1] denotes
LikelihoodOf(c, up, down, last) ==
    IF c = -1 THEN (IF RLess(Zero, up[last]) THEN up[last] ELSE Zero)
    ELSE IF c = 1 THEN (IF RLess(Zero, down[last]) THEN down[last] ELSE Zero)
    ELSE Zero

InitLikelihood ==
    /\ RT \in RTValues
    /\ choice \in ChoiceValues
    /\ valueLeft \in ItemValues
    /\ valueRight \in ItemValues
    /\ barrier \in BarrierValues
    /\ maxTime = 0
    /\ time = 0
    /\ prStates = <<>>
    /\ probUpCrossing = <<>>
    /\ probDownCrossing = <<>>
    /\ likelihood = Zero
    /\ lpc = "call"
    /\ PosteriorIdle
    /\ SimulIdle
    /\ OptimizeIdle

\* everything before the loop over the time of the trial
Setup ==
    /\ lpc = "call"
    /\ LET mt == RT \div timeStep
       IN  /\ maxTime' = mt
           /\ IF mt < 0
              THEN \* np.ones(maxTime) with a negative dimension
                   /\ lpc' = "ValueError"
                   /\ UNCHANGED <<time, prStates, probUpCrossing,
                                  probDownCrossing>>
              ELSE IF mt = 0
              THEN \* barrierUp[0] on an empty array
                   /\ lpc' = "IndexError"
                   /\ UNCHANGED <<time, prStates, probUpCrossing,
                                  probDownCrossing>>
              ELSE /\ prStates' = InitialPrStates(barrier)
                   /\ probUpCrossing' = [t \in 0..(mt - 1) |-> Zero]
                   /\ probDownCrossing' = [t \in 0..(mt - 1) |-> Zero]
                   /\ time' = 1
                   /\ lpc' = "loop"
    /\ UNCHANGED <<RT, choice, valueLeft, valueRight, barrier, likelihood>>
    /\ UNCHANGED <<postVars, simVars, optVars>>

\* one iteration of the loop over the time of the trial
Propagate ==
    /\ lpc = "loop"
    /\ time < maxTime
    /\ LET mean == Mean(valueLeft, valueRight)
           prStatesNew == PrStatesNew(barrier, mean, prStates, time)
           tempUpCross == TempUpCross(barrier, mean, prStates, time)
           tempDownCross == TempDownCross(barrier, mean, prStates, time)
           sumIn == Sum(prStates)
           sumCurrent == RAdd(RAdd(Sum(prStatesNew), tempUpCross), tempDownCross)
       IN  /\ prStates' = [j \in DOMAIN prStatesNew |->
                              Renormalize(prStatesNew[j], sumIn, sumCurrent)]
           /\ probUpCrossing' = [probUpCrossing EXCEPT
                  ![time] = Renormalize(tempUpCross, sumIn, sumCurrent)]
           /\ probDownCrossing' = [probDownCrossing EXCEPT
                  ![time] = Renormalize(tempDownCross, sumIn, sumCurrent)]
    /\ time' = time + 1
    /\ UNCHANGED <<RT, choice, valueLeft, valueRight, barrier, maxTime,
                   likelihood, lpc>>
    /\ UNCHANGED <<postVars, simVars, optVars>>

\* the loop is over: the likelihood of the final choice is returned
ReturnLikelihood ==
    /\ lpc = "loop"
    /\ time >= maxTime
    /\ likelihood' = LikelihoodOf(choice, probUpCrossing, probDownCrossing,
                                  Cardinality(DOMAIN probUpCrossing) - 1)
    /\ lpc' = "done"
    /\ UNCHANGED <<RT, choice, valueLeft, valueRight, barrier, maxTime, time,
                   prStates, probUpCrossing, probDownCrossing>>
    /\ UNCHANGED <<postVars, simVars, optVars>>

NextLikelihood ==
    \/ Setup
    \/ Propagate
    \/ ReturnLikelihood

SpecLikelihood == InitLikelihood /\ [][NextLikelihood]_vars

(***************************************************************************)
(* ddm.run_simulations, for one trial condition.                           *)
(***************************************************************************)
SimBarriers == {0, 1, 2}          \* the argument barrier, in evidence units
Increments == {-2, -1, 0, 1, 2}   \* the values np.random.normal may return

\* a faulty barrier test that misses the evidence sitting exactly on a barrier
AtBarrierStrict(rdv, b) == rdv > b \/ rdv < -b

\* if RDV >= barrier or RDV <= -barrier
AtBarrier(rdv, b) == rdv >= b \/ rdv <= -b

InitSimul ==
    /\ numTrials \in 1..MaxNumTrials
    /\ simBarrier \in SimBarriers
    /\ trialCount = 0
    /\ RDV = 0
    /\ simTime = 0
    /\ increments = <<>>
    /\ simRT = <<>>
    /\ simChoice = <<>>
    /\ spc = "for"
    /\ PosteriorIdle
    /\ LikelihoodIdle
    /\ OptimizeIdle

\* for trial in xrange(numTrials): RDV = 0; time = 0
StartTrial ==
    /\ spc = "for"
    /\ trialCount < numTrials
    /\ RDV' = 0
    /\ simTime' = 0
    /\ increments' = <<>>
    /\ spc' = "while"
    /\ UNCHANGED <<numTrials, simBarrier, trialCount, simRT, simChoice>>
    /\ UNCHANGED <<postVars, likVars, optVars>>

\* the RDV hit one of the barriers: the trial is recorded and is over
RecordTrial ==
    /\ spc = "while"
    /\ AtBarrier(RDV, simBarrier)
    /\ simRT' = [n \in 0..trialCount |->
                    IF n = trialCount THEN simTime * timeStep ELSE simRT[n]]
    /\ simChoice' = [n \in 0..trialCount |->
                        IF n = trialCount THEN BarrierChoice(RDV, simBarrier)
                        ELSE simChoice[n]]
    /\ trialCount' = trialCount + 1
    /\ spc' = "for"
    /\ UNCHANGED <<numTrials, simBarrier, RDV, simTime, increments>>
    /\ UNCHANGED <<postVars, likVars, optVars>>

\* RDV += np.random.normal(mean, sigma); time += 1
SampleIncrement ==
    /\ spc = "while"
    /\ ~AtBarrier(RDV, simBarrier)
    /\ simTime < MaxSimSteps
    /\ \E inc \in Increments :
          /\ RDV' = RDV + inc
          /\ increments' = Append(increments, inc)
    /\ simTime' = simTime + 1
    /\ UNCHANGED <<numTrials, simBarrier, trialCount, simRT, simChoice, spc>>
    /\ UNCHANGED <<postVars, likVars, optVars>>

\* all trials are simulated: the named tuple is returned
ReturnSimul ==
    /\ spc = "for"
    /\ trialCount = numTrials
    /\ spc' = "returned"
    /\ UNCHANGED <<numTrials, simBarrier, trialCount, RDV, simTime, increments,
                   simRT, simChoice>>
    /\ UNCHANGED <<postVars, likVars, optVars>>

NextSimul ==
    \/ StartTrial
    \/ RecordTrial
    \/ SampleIncrement
    \/ ReturnSimul

SpecSimul == InitSimul /\ [][NextSimul]_vars

(***************************************************************************)
(* optimize.get_model_nll, for one vector of parameters.                   *)
(***************************************************************************)
\* the values of --trials-per-subject (type=int)
TrialsPerSubjectValues == (-1)..(MaxSubjectTrials + 1)

\* the likelihoods get_trial_likelihood can return for a trial
NllLikValues == {Zero, <<1, 2>>}

\* the sets np.random.choice(trials, size, replace=False) can return for a
\* list of n trials; no set at all when numpy raises ValueError (a negative
\* size, or a sample larger than the population)
RandomChoice(n, size) ==
    {ts \in SUBSET (1..n) : Cardinality(ts) = size}

InitOptimize ==
    /\ trialsPerSubject \in TrialsPerSubjectValues
    /\ subjectTrials \in UNION {[1..n -> 1..MaxSubjectTrials] : n \in 1..MaxSubjects}
    /\ subject = 1
    /\ trialSet = {}
    /\ scored = <<>>
    /\ logLikelihood = <<>>
    /\ opc = "subject"
    /\ PosteriorIdle
    /\ LikelihoodIdle
    /\ SimulIdle

\* trials = choice[subject].keys(); trialSet = np.random.choice(...)
ChooseTrialSet ==
    /\ opc = "subject"
    /\ subject <= Len(subjectTrials)
    /\ \E ts \in RandomChoice(subjectTrials[subject], trialsPerSubject) :
          /\ trialSet' = ts
          /\ scored' = Append(scored, {})
          /\ opc' = "trial"
    /\ UNCHANGED <<trialsPerSubject, subjectTrials, subject, logLikelihood>>
    /\ UNCHANGED <<postVars, likVars, simVars>>

\* np.random.choice raises: the exception leaves get_model_nll
ChoiceRaises ==
    /\ opc = "subject"
    /\ subject <= Len(subjectTrials)
    /\ RandomChoice(subjectTrials[subject], trialsPerSubject) = {}
    /\ opc' = "ValueError"
    /\ UNCHANGED <<trialsPerSubject, subjectTrials, subject, trialSet, scored,
                   logLikelihood>>
    /\ UNCHANGED <<postVars, likVars, simVars>>

\* one iteration of `for trial in trialSet`
ScoreTrial ==
    /\ opc = "trial"
    /\ \E t \in trialSet \ scored[subject] :
          scored' = [scored EXCEPT ![subject] = @ \cup {t}]
    /\ \E lik \in NllLikValues :
          logLikelihood' = IF lik # Zero THEN Append(logLikelihood, lik)
                           ELSE logLikelihood
    /\ UNCHANGED <<trialsPerSubject, subjectTrials, subject, trialSet, opc>>
    /\ UNCHANGED <<postVars, likVars, simVars>>

\* trialSet is exhausted: on to the next subject
NextSubject ==
    /\ opc = "trial"
    /\ scored[subject] = trialSet
    /\ subject' = subject + 1
    /\ opc' = "subject"
    /\ UNCHANGED <<trialsPerSubject, subjectTrials, trialSet, scored,
                   logLikelihood>>
    /\ UNCHANGED <<postVars, likVars, simVars>>

\* return -logLikelihood
ReturnNll ==
    /\ opc = "subject"
    /\ subject > Len(subjectTrials)
    /\ opc' = "returned"
    /\ UNCHANGED <<trialsPerSubject, subjectTrials, subject, trialSet, scored,
                   logLikelihood>>
    /\ UNCHANGED <<postVars, likVars, simVars>>

NextOptimize ==
    \/ ChooseTrialSet
    \/ ChoiceRaises
    \/ ScoreTrial
    \/ NextSubject
    \/ ReturnNll

SpecOptimize == InitOptimize /\ [][NextOptimize]_vars

\* C12: when --trials-per-subject is smaller than 1, get_model_nll uses all
\* the trials of every subject in the negative log-likelihood; otherwise it
\* uses exactly trials-per-subject distinct trials of every subject.
TrialsPerSubjectHonoured ==
    /\ trialsPerSubject < 1 => opc # "ValueError"
    /\ opc = "returned" =>
          \A s \in 1..Len(subjectTrials) :
              IF trialsPerSubject < 1
              THEN scored[s] = 1..subjectTrials[s]
              ELSE /\ scored[s] \subseteq 1..subjectTrials[s]
                   /\ Cardinality(scored[s]) = trialsPerSubject

(***************************************************************************)
(* Properties of get_trial_likelihood.                                     *)
(***************************************************************************)
\* C6: the likelihood returned is the crossing probability at index
\* maxTime - 1 of the series of the observed choice, the upper barrier for the
\* choice run_simulations gives a trial ending on the upper barrier and the
\* lower barrier for the other one, and exactly 0 when that value is <= 0.
LikelihoodReadsChosenSeries ==
    lpc = "done" =>
        LET last == maxTime - 1
            series == IF choice = BarrierChoice(1, 1) THEN probUpCrossing
                      ELSE probDownCrossing
        IN  /\ choice \in {BarrierChoice(1, 1), BarrierChoice(-1, 1)}
            /\ likelihood = IF series[last][1] > 0 THEN series[last] ELSE Zero

\* a trial that ended on the lower barrier got a non-zero likelihood, which
\* differs from the one of the upper barrier
LowerCrossingLikelihood ==
    /\ lpc = "done"
    /\ choice = 1
    /\ likelihood # Zero
    /\ probUpCrossing[maxTime - 1] # probDownCrossing[maxTime - 1]

\* C7: a trial with maxTime = RT // timeStep < 1 makes get_trial_likelihood
\* fail with InvalidTrial; no likelihood is returned for it.
DegenerateTrialIsInvalid ==
    (lpc # "call" /\ RT \div timeStep < 1) => lpc = "InvalidTrial"

\* C8: at every time step the surviving mass plus the crossing probabilities
\* recorded so far is 1; the renormalization of a step makes the new state
\* mass plus the two crossing probabilities equal to the state mass before
\* the step, and keeps the ratios among the three quantities.
MassConserved ==
    /\ [](lpc \in {"loop", "done"} =>
            RAdd(Sum(prStates), RAdd(Sum(probUpCrossing), Sum(probDownCrossing)))
                = One)
    /\ [][(lpc = "loop" /\ time' = time + 1) =>
            LET mean == Mean(valueLeft, valueRight)
                new == PrStatesNew(barrier, mean, prStates, time)
                up == TempUpCross(barrier, mean, prStates, time)
                down == TempDownCross(barrier, mean, prStates, time)
                upAfter == probUpCrossing'[time]
                downAfter == probDownCrossing'[time]
                \* the one factor that takes a raw quantity to its value
                \* after the step
                factor == IF up # Zero THEN RDiv(upAfter, up)
                          ELSE IF down # Zero THEN RDiv(downAfter, down)
                          ELSE IF Sum(new) # Zero
                               THEN RDiv(Sum(prStates'), Sum(new))
                          ELSE One
            IN  /\ RAdd(Sum(prStates'), RAdd(upAfter, downAfter)) = Sum(prStates)
                /\ upAfter = RMul(factor, up)
                /\ downAfter = RMul(factor, down)
                /\ \A j \in DOMAIN new : prStates'[j] = RMul(factor, new[j])]_vars

\* two steps of a trial with a drift have been propagated and renormalized
TwoStepsPropagated ==
    /\ lpc = "loop"
    /\ time = 3
    /\ valueLeft # valueRight
    /\ RLess(Sum(prStates), One)
    /\ probUpCrossing[2] # probDownCrossing[2]
    /\ SumCurrent(barrier, Mean(valueLeft, valueRight), prStates, time) # Sum(prStates)

\* the state of index j lies at or beyond one of the barriers of step t
Absorbed(j, t) ==
    \/ RLeq(BarrierUp(barrier, t), States(barrier)[j])
    \/ RLeq(States(barrier)[j], BarrierDown(barrier, t))

\* C14: after every propagation step t in 1..maxTime-1 the probability of
\* every state at or beyond either barrier of step t is 0 and every state
\* probability is non-negative: only the states strictly inside the barriers
\* carry mass into the next step.
AbsorbedStatesCarryNoMass ==
    (lpc \in {"loop", "done"} /\ time >= 2) =>
        \A j \in DOMAIN prStates :
            /\ prStates[j][1] >= 0
            /\ Absorbed(j, time - 1) => prStates[j] = Zero

\* two steps have been propagated, and mass has spread from the zero state to
\* another state strictly inside the barriers
MassSpreadInsideBarriers ==
    /\ lpc = "loop"
    /\ time = 3
    /\ \E j \in DOMAIN prStates :
          /\ States(barrier)[j] # Zero
          /\ ~Absorbed(j, time - 1)
          /\ prStates[j] # Zero
    /\ \E j \in DOMAIN prStates : Absorbed(j, time - 1) /\ prStates[j] = Zero

\* the probability of crossing the barrier of choice c on the increment that
\* follows the distribution pr of step t - 1, renormalized as in the loop
CrossingOnIncrement(c, t, pr) ==
    LET mean == Mean(valueLeft, valueRight)
        series == IF c = BarrierChoice(1, 1)
                  THEN TempUpCross(barrier, mean, pr, t)
                  ELSE TempDownCross(barrier, mean, pr, t)
    IN  Renormalize(series, Sum(pr), SumCurrent(barrier, mean, pr, t))

\* C13: for a trial that run_simulations ends after k >= 1 increments
\* (RT = k * timeStep, so maxTime = k) the likelihood returned is the
\* probability of first crossing the chosen barrier on the k-th increment:
\* the crossing probability of the increment that follows the k - 1
\* increments behind the final distribution of the states; a trial that
\* crosses on its first increment is scored at that increment.
LikelihoodAtReactionTime ==
    (lpc = "done" /\ RT = maxTime * timeStep) =>
        LET crossing == CrossingOnIncrement(choice, maxTime, prStates)
        IN  /\ time = maxTime
            /\ likelihood = IF crossing[1] > 0 THEN crossing ELSE Zero

(***************************************************************************)
(* Properties of run_simulations.                                          *)
(***************************************************************************)
RECURSIVE SumFirst(_, _)
SumFirst(s, n) == IF n = 0 THEN 0 ELSE s[n] + SumFirst(s, n - 1)

\* C9: a trial starts with evidence 0 and time 0 and adds one increment per
\* step; it ends at the first step at which the evidence is at or beyond a
\* barrier, with choice -1 on the upper and +1 on the lower barrier; the
\* reaction time is the number of increments times timeStep, and for
\* barrier > 0 every recorded trial has RT >= timeStep and choice -1 or +1.
SimulatedTrialEndsAtFirstCrossing ==
    /\ spc = "while" =>
          /\ RDV = SumFirst(increments, Len(increments))
          /\ simTime = Len(increments)
          /\ \A n \in 0..(Len(increments) - 1) :
                /\ SumFirst(increments, n) < simBarrier
                /\ SumFirst(increments, n) > -simBarrier
    /\ (spc = "for" /\ trialCount > 0) =>
          LET evidence == SumFirst(increments, Len(increments))
          IN  /\ simRT[trialCount - 1] = Len(increments) * timeStep
              /\ evidence >= simBarrier \/ evidence <= -simBarrier
              /\ evidence >= simBarrier => simChoice[trialCount - 1] = -1
              /\ (evidence < simBarrier /\ evidence <= -simBarrier) =>
                    simChoice[trialCount - 1] = 1
    /\ simBarrier > 0 =>
          \A n \in DOMAIN simRT :
              simRT[n] >= timeStep /\ simChoice[n] \in {-1, 1}

\* a trial has just been recorded that ended exactly on the lower barrier
\* after more than one increment
RecordedLowerCrossing ==
    /\ spc = "for"
    /\ trialCount > 0
    /\ simBarrier > 0
    /\ RDV = -simBarrier
    /\ simRT[trialCount - 1] > timeStep
    /\ simChoice[trialCount - 1] = 1

\* C10: a simulated trial that has not reached a barrier within the maximum
\* duration stops with SimulationTimeout: once the maximum duration (here the
\* longest the model follows, less one step) is reached inside the barriers,
\* no further increment is drawn.
SimulationTimesOut ==
    [][(spc = "while" /\ ~(RDV >= simBarrier \/ RDV <= -simBarrier)
            /\ simTime >= MaxSimSteps - 1)
        => spc' = "SimulationTimeout"]_vars

====
